---------------------------- MODULE Spec2Model ----------------------------
(***************************************************************************)
(* A model of the SML (Smart Message Language) decoder of sml.py: the      *)
(* CRC16 engine, the escape-sequence frame assembler (Sml.parse_byte) and  *)
(* the schema-driven TLV decoder (Sml.parse).                              *)
(*                                                                         *)
(* Bytes are integers 0..255.  A Python exception that leaves a method is  *)
(* modelled as the name of its class in the result of the operator or in   *)
(* the variable that holds the outcome of the call.                        *)
(***************************************************************************)
EXTENDS Integers, Sequences, FiniteSets, TLC

(***************************************************************************)
(* Bit operations on non-negative integers.                                *)
(***************************************************************************)
RECURSIVE BitXor(_, _)
BitXor(a, b) ==
    IF a = 0 THEN b
    ELSE IF b = 0 THEN a
    ELSE ((a + b) % 2) + 2 * BitXor(a \div 2, b \div 2)

RECURSIVE BitAnd(_, _)
BitAnd(a, b) ==
    IF a = 0 \/ b = 0 THEN 0
    ELSE ((a % 2) * (b % 2)) + 2 * BitAnd(a \div 2, b \div 2)

RECURSIVE Pow2(_)
Pow2(n) == IF n = 0 THEN 1 ELSE 2 * Pow2(n - 1)

(***************************************************************************)
(* CRC16 engine.                                                           *)
(***************************************************************************)
\* polynom = 0x8408, the reflected CCITT polynomial
polynom == 33800

\* crcsum = 0xFFFF, the initial value and the final XOR value
CrcInitValue == 65535

\* the inner loop "for bit in range(8)": n rounds of shift and XOR
RECURSIVE CrcRounds(_, _)
CrcRounds(crcsum, n) ==
    IF n = 0 THEN crcsum
    ELSE IF BitAnd(crcsum, 1) = 1
         THEN CrcRounds(BitXor(crcsum \div 2, polynom), n - 1)
         ELSE CrcRounds(crcsum \div 2, n - 1)

\* the outer loop "for byte in data" of crc_slow, from accumulator crcsum.
\* The bytes are taken first to last; the sequence is split in halves, and
\* the first half is evaluated before the second, only to keep TLC's
\* evaluation shallow (the accumulator is always a 16-bit value).
RECURSIVE CrcSlowLoop(_, _)
CrcSlowLoop(crcsum, bytes) ==
    IF bytes = <<>> THEN crcsum
    ELSE IF Len(bytes) = 1 THEN CrcRounds(BitXor(crcsum, bytes[1]), 8)
    ELSE LET half == CrcSlowLoop(crcsum, SubSeq(bytes, 1, Len(bytes) \div 2))
         IN IF half \in 0..65535
            THEN CrcSlowLoop(half, SubSeq(bytes, Len(bytes) \div 2 + 1, Len(bytes)))
            ELSE -1

\* crc_slow: the bit-by-bit reference
crc_slow(bytes) == BitXor(CrcSlowLoop(CrcInitValue, bytes), CrcInitValue)

\* crc_init: the 256-entry look-up table
crc_table == [byte \in 0..255 |-> CrcRounds(byte, 8)]

\* a table step that indexes with the high byte of crcsum and keeps the low
\* one: not the code's step, C3 tells the two apart
CrcStepWrongIndex(crcsum, byte) ==
    BitXor(crc_table[BitXor(byte, crcsum \div 256)], crcsum % 256)

\* one step of the loop of crc(): idx = byte ^ (crcsum & 0xFF);
\* crcsum = crc_table[idx] ^ (crcsum >> 8)
CrcStep(crcsum, byte) ==
    BitXor(crc_table[BitXor(byte, BitAnd(crcsum, 255))], crcsum \div 256)

\* the loop "for byte in data" of crc, from accumulator crcsum (split in
\* halves as in CrcSlowLoop)
RECURSIVE CrcLoop(_, _)
CrcLoop(crcsum, bytes) ==
    IF bytes = <<>> THEN crcsum
    ELSE IF Len(bytes) = 1 THEN CrcStep(crcsum, bytes[1])
    ELSE LET half == CrcLoop(crcsum, SubSeq(bytes, 1, Len(bytes) \div 2))
         IN IF half \in 0..65535
            THEN CrcLoop(half, SubSeq(bytes, Len(bytes) \div 2 + 1, Len(bytes)))
            ELSE -1

\* crc: the table-driven checksum
crc(bytes) == BitXor(CrcLoop(CrcInitValue, bytes), CrcInitValue)


(***************************************************************************)
(* Structure schema and discriminant table.                                *)
(***************************************************************************)
\* key_names: discriminant field name -> (decoded value -> node name)
key_names ==
    [ messageId |-> (257 :> "OpenResponse") @@ (513 :> "CloseResponse")
                    @@ (1793 :> "GetListResponse"),
      timeId    |-> (1 :> "secIndex") @@ (2 :> "timestamp")
                    @@ (3 :> "localTimestamp") ]

\* sml_struct: node name -> type and field names.  'name' of a list node is
\* the single element name, written here as a one-element sequence.
sml_struct ==
    [ smlFile         |-> [type |-> "list",   name |-> <<"smlMessage">>],
      smlMessage      |-> [type |-> "struct", name |-> <<"transactionId", "groupNo", "abortOnError", "messageBody", "crc16", "endOfSmlMsg">>],
      messageBody     |-> [type |-> "struct", name |-> <<"messageId", "[messageId]">>],
      message         |-> [type |-> "list",   name |-> <<"message">>],
      OpenResponse    |-> [type |-> "struct", name |-> <<"codepage", "clientId", "reqFileId", "serverId", "refTime", "smlVersion">>],
      refTime         |-> [type |-> "struct", name |-> <<"timeId", "[timeId]">>],
      CloseResponse   |-> [type |-> "struct", name |-> <<"globalSignature">>],
      GetListResponse |-> [type |-> "struct", name |-> <<"clientId", "serverId", "listName", "actSensorTime", "valList", "listSignature", "actGatewayTime">>],
      actSensorTime   |-> [type |-> "struct", name |-> <<"timeId", "[timeId]">>],
      actGatewayTime  |-> [type |-> "struct", name |-> <<"timeId", "[timeId]">>],
      valList         |-> [type |-> "list",   name |-> <<"val">>],
      val             |-> [type |-> "struct", name |-> <<"objName", "status", "valTime", "unit", "scaler", "value", "valueSignature">>],
      valTime         |-> [type |-> "struct", name |-> <<"timeId", "[timeId]">>],
      secIndex        |-> [type |-> "struct", name |-> <<"secIndex">>],
      timestamp       |-> [type |-> "struct", name |-> <<"timestamp">>],
      localTimestamp  |-> [type |-> "struct", name |-> <<"timestamp", "localOffset", "seasonTimeOffset">>] ]

\* elem.find('[') # -1: the field name is a discriminant placeholder
HasBracket(elem) == elem \in {"[messageId]", "[timeId]"}

\* key = elem[ob+1:cb]: the discriminant field a placeholder names
BracketKey(elem) == IF elem = "[messageId]" THEN "messageId" ELSE "timeId"

\* key[:-2]: the discriminant name without its last two characters
StripSuffix(key) == IF key = "messageId" THEN "message" ELSE "time"

(***************************************************************************)
(* Decoded values.  k tells the Python type: None, bytes (bytearray),      *)
(* bool, int, list, dict.  A dict is a function from field names.          *)
(***************************************************************************)
\* an absent value that is an empty byte string: not the code's, C13 tells
\* the two apart
AbsentAsEmptyBytes == [k |-> "bytes", v |-> <<>>]

NoneVal      == [k |-> "None"]
BytesVal(b)  == [k |-> "bytes", v |-> b]
BoolVal(b)   == [k |-> "bool", v |-> b]
IntVal(n)    == [k |-> "int", v |-> n]
ListVal(l)   == [k |-> "list", v |-> l]
DictVal(d)   == [k |-> "dict", v |-> d]
EmptyDict    == [n \in {} |-> NoneVal]

\* sml_dict[elem] = val
DictPut(d, elem, val) ==
    [n \in (DOMAIN d) \cup {elem} |-> IF n = elem THEN val ELSE d[n]]

Min(a, b) == IF a < b THEN a ELSE b
Max(a, b) == IF a > b THEN a ELSE b

\* the number of leading items that the Python slices s[:n] keeps and
\* s[n:] drops, for a sequence of length len
SliceCut(len, n) == IF n >= 0 THEN Min(n, len) ELSE Max(len + n, 0)

\* a pop_data that returns the bytes and leaves them in the buffer: not the
\* code's, C9 tells the two apart
pop_data_removes_nothing(d, n) ==
    [out |-> SubSeq(d, 1, SliceCut(Len(d), n)), data |-> d]

\* pop_data(len): the first 'len' bytes (as the slice data[:len] takes
\* them) and the buffer without them
pop_data(d, n) ==
    [out  |-> SubSeq(d, 1, SliceCut(Len(d), n)),
     data |-> SubSeq(d, SliceCut(Len(d), n) + 1, Len(d))]

\* int.from_bytes(b, byteorder='big', signed=False)
RECURSIVE UnsignedFromBytes(_)
UnsignedFromBytes(b) ==
    IF b = <<>> THEN 0
    ELSE 256 * UnsignedFromBytes(SubSeq(b, 1, Len(b) - 1)) + b[Len(b)]

\* int.from_bytes(b, byteorder='big', signed=True)
SignedFromBytes(b) ==
    IF b = <<>> THEN 0
    ELSE IF b[1] >= 128
         THEN UnsignedFromBytes(b) - Pow2(8 * Len(b))
         ELSE UnsignedFromBytes(b)

(***************************************************************************)
(* TLV decoder: one iteration of the loop of parse, in three parts.        *)
(***************************************************************************)
\* name[l - elements] with Python's index rule: 0 when out of range,
\* else the 1-based position
PyIndex(l, i) ==
    IF 0 <= i /\ i < l THEN i + 1
    ELSE IF -l <= i /\ i < 0 THEN l + i + 1
    ELSE 0

\* key_names[key][sml_dict[key]] inside try/except: the node name, or ""
\* when the lookup raises (no such field decoded yet, an unhashable
\* value, no table entry).  A bool is looked up as the int it equals.
KeyLookup(key, dct) ==
    IF key \notin DOMAIN dct THEN ""
    ELSE LET x == dct[key]
             n == IF x.k = "int" THEN x.v
                  ELSE IF x.k = "bool" THEN (IF x.v THEN 1 ELSE 0)
                  ELSE -1
         IN IF x.k \in {"int", "bool"} /\ n \in DOMAIN key_names[key]
            THEN key_names[key][n]
            ELSE ""

\* a resolution that never consults key_names: not the code's, C11 tells
\* the two apart
ResolveElemWithoutTable(elem, dct) == StripSuffix(BracketKey(elem))

\* the name a placeholder field resolves to
ResolveElem(elem, dct) ==
    LET key     == BracketKey(elem)
        key_str == KeyLookup(key, dct)
    IN IF key_str = "" THEN StripSuffix(key)
       ELSE IF key_str \in DOMAIN sml_struct THEN key_str
       ELSE StripSuffix(key)

\* the head of the loop body: etyp and elem of this position
Resolve(struct, elements, dct) ==
    IF struct \notin DOMAIN sml_struct
    THEN [exc |-> "KeyError", line |-> 187, etyp |-> "unset", elem |-> ""]
    ELSE LET node == sml_struct[struct] IN
         IF node.type = "list"
         THEN [exc |-> "", line |-> 0, etyp |-> "list", elem |-> node.name[1]]
         ELSE IF node.type = "struct"
         THEN LET l == Len(node.name)
                  i == PyIndex(l, l - elements)
              IN IF i = 0
                 THEN [exc |-> "IndexError", line |-> 193, etyp |-> "struct", elem |-> ""]
                 ELSE [exc |-> "", line |-> 0, etyp |-> "struct",
                       elem |-> IF HasBracket(node.name[i])
                                THEN ResolveElem(node.name[i], dct)
                                ELSE node.name[i]]
         ELSE [exc |-> "SmlException", line |-> 215, etyp |-> "unset", elem |-> ""]

\* the loop "while tl & 0x80": further bytes of the type-length field
RECURSIVE TLMore(_, _, _, _, _)
TLMore(tl, tl_typ, tl_len, tl_bytes, d) ==
    IF BitAnd(tl, 128) = 0
    THEN [exc |-> "", line |-> 0, tl |-> tl, tl_typ |-> tl_typ, tl_len |-> tl_len,
          tl_bytes |-> tl_bytes, data |-> d]
    ELSE LET p == pop_data(d, 1) IN
         IF p.out = <<>>
         THEN [exc |-> "IndexError", line |-> 226, tl |-> tl, tl_typ |-> tl_typ,
               tl_len |-> tl_len, tl_bytes |-> tl_bytes, data |-> p.data]
         ELSE TLMore(p.out[1], tl_typ,
                     IF BitAnd(p.out[1], 112) = 0
                     THEN tl_len * 16 + BitAnd(p.out[1], 15) ELSE tl_len,
                     tl_bytes + 1, p.data)

\* a type-length field of one byte whatever its bit 0x80: not the code's,
\* C12 tells the two apart
ReadTLFromFirstByteOnly(p) ==
    [exc |-> "", line |-> 0, tl |-> p.out[1], tl_typ |-> BitAnd(p.out[1], 112),
     tl_len |-> BitAnd(p.out[1], 15), tl_bytes |-> 1, data |-> p.data]

\* Read Type-Length-Field (the buffer holds at least one byte)
ReadTLFrom(p) ==
    TLMore(p.out[1], BitAnd(p.out[1], 112), BitAnd(p.out[1], 15), 1, p.data)

ReadTL(d) == ReadTLFrom(pop_data(d, 1))

\* the element of a type other than list: whether a value is stored and the
\* budget decremented, the value, and the buffer after it
Primitive(t) ==
    LET data_len == t.tl_len - t.tl_bytes
        p        == pop_data(t.data, data_len)
    IN CASE t.tl_typ = 0 ->
              IF data_len = 0 THEN [stored |-> TRUE, val |-> NoneVal, data |-> t.data]
              ELSE IF t.tl = 0 THEN [stored |-> TRUE, val |-> BytesVal(<<0>>), data |-> t.data]
              ELSE [stored |-> TRUE, val |-> BytesVal(p.out), data |-> p.data]
         [] t.tl_typ = 64 ->
              [stored |-> TRUE, val |-> BoolVal(UnsignedFromBytes(p.out) # 0), data |-> p.data]
         [] t.tl_typ = 80 ->
              [stored |-> TRUE, val |-> IntVal(SignedFromBytes(p.out)), data |-> p.data]
         [] t.tl_typ = 96 ->
              [stored |-> TRUE, val |-> IntVal(UnsignedFromBytes(p.out)), data |-> p.data]
         [] OTHER ->
              [stored |-> FALSE, val |-> NoneVal,
               data |-> SubSeq(t.data, SliceCut(Len(t.data), data_len) + 1, Len(t.data))]

\* sml_list.append(val) or sml_dict[elem] = val
StoreList(etyp, lst, val) == IF etyp = "list" THEN Append(lst, val) ELSE lst
StoreDict(etyp, dct, elem, val) == IF etyp = "struct" THEN DictPut(dct, elem, val) ELSE dct

(***************************************************************************)
(* parse as a machine.  Its state m is the stack of the calls of parse     *)
(* under way (the locals of each: struct, elements, sml_list, sml_dict,    *)
(* etyp, elem, and the length of the buffer when it was called), the       *)
(* buffer self.data, and how the outermost call has ended: status is       *)
(* "run", "returned" (with val) or "raised" (with the class exc of the     *)
(* exception and the line that raised it).  popped is the number of bytes  *)
(* the call that ended last has removed from the buffer.                   *)
(***************************************************************************)
\* the locals of parse(struct, elements) at entry, the buffer holding n bytes
ParseEntry(struct, elements, n) ==
    [struct |-> struct, elements |-> elements, sml_list |-> <<>>,
     sml_dict |-> EmptyDict, etyp |-> "unset", elem |-> "", at_entry |-> n]

\* the machine at the call parse(struct, elements) on buffer d
ParseCall(struct, elements, d) ==
    [stack |-> <<ParseEntry(struct, elements, Len(d))>>, data |-> d,
     status |-> "run", exc |-> "", line |-> 0, val |-> NoneVal, popped |-> 0]

\* the stack with its top call replaced by f
ReplaceTop(stack, f) == [stack EXCEPT ![Len(stack)] = f]

\* an exception: parse has no handler, every call under way is left
ParseRaise(m, exc, line, d) ==
    [m EXCEPT !.stack = <<>>, !.data = d, !.status = "raised", !.exc = exc,
              !.line = line, !.popped = m.stack[Len(m.stack)].at_entry - Len(d)]

\* the end of an iteration of call f that decoded val: it is stored by etyp,
\* and the budget is decremented
ParseStore(f, val) ==
    [f EXCEPT !.elements = @ - 1,
              !.sml_list = StoreList(f.etyp, @, val),
              !.sml_dict = StoreDict(f.etyp, @, f.elem, val)]

\* "return sml_list" or "return sml_dict": the value goes to the caller of
\* parse, or to the iteration of the call below that made the call
ParseReturnVal(m, val) ==
    IF Len(m.stack) = 1
    THEN [m EXCEPT !.stack = <<>>, !.status = "returned", !.val = val,
                   !.popped = m.stack[1].at_entry - Len(m.data)]
    ELSE [m EXCEPT !.stack = Append(SubSeq(m.stack, 1, Len(m.stack) - 2),
                                    ParseStore(m.stack[Len(m.stack) - 1], val)),
                   !.popped = m.stack[Len(m.stack)].at_entry - Len(m.data)]

\* the loop of call f has ended: "if etyp == 'list' ... elif etyp == 'struct'"
\* reads etyp, which no iteration has assigned when the loop never ran
ParseExit(m, f) ==
    IF f.etyp = "list" THEN ParseReturnVal(m, ListVal(f.sml_list))
    ELSE IF f.etyp = "struct" THEN ParseReturnVal(m, DictVal(f.sml_dict))
    ELSE ParseRaise(m, "UnboundLocalError", 286, m.data)

\* the types other than list: p is the outcome of Primitive
ParseValue(m, f, p) ==
    [m EXCEPT !.data = p.data,
              !.stack = ReplaceTop(m.stack, IF p.stored THEN ParseStore(f, p.val) ELSE f)]

\* the iteration from the type-length field t on; "if tl_typ == 0x70" calls
\* parse(elem, tl_len)
ParseElement(m, f, t) ==
    IF t.exc # "" THEN ParseRaise(m, t.exc, t.line, t.data)
    ELSE IF t.tl_typ = 112
    THEN [m EXCEPT !.data = t.data,
                   !.stack = Append(ReplaceTop(m.stack, f),
                                    ParseEntry(f.elem, t.tl_len, Len(t.data)))]
    ELSE ParseValue(m, f, Primitive(t))

\* one iteration of the while loop of call f, r being etyp and elem as the
\* head of the loop body resolves them
ParseIteration(m, f, r) ==
    IF r.exc # "" THEN ParseRaise(m, r.exc, r.line, m.data)
    ELSE ParseElement(m, [f EXCEPT !.etyp = r.etyp, !.elem = r.elem], ReadTL(m.data))

\* the next step of the call on top of the stack: "while len(self.data) and
\* elements != 0" runs one more iteration, or the call ends
ParseTop(m, f) ==
    IF Len(m.data) # 0 /\ f.elements # 0
    THEN ParseIteration(m, f, Resolve(f.struct, f.elements, f.sml_dict))
    ELSE ParseExit(m, f)

ParseStep(m) == ParseTop(m, m.stack[Len(m.stack)])

\* n steps, or fewer when the outermost call ends; the first half of them is
\* evaluated before the second half
RECURSIVE ParseSteps(_, _)
ParseStepsOn(half, n) == IF half.status # "run" THEN half ELSE ParseSteps(half, n)

ParseSteps(m, n) ==
    IF n = 0 \/ m.status # "run" THEN m
    ELSE IF n = 1 THEN ParseStep(m)
    ELSE ParseStepsOn(ParseSteps(m, n \div 2), n - n \div 2)

\* steps until the outermost call ends
RECURSIVE ParseRun(_)
ParseRunOn(block) == IF block.status # "run" THEN block ELSE ParseRun(block)

ParseRun(m) == ParseRunOn(ParseSteps(m, 16))

\* parse(struct, elements) on buffer d: the exception or the value returned,
\* and the buffer left
ParseOutcome(m) == [exc |-> m.exc, line |-> m.line, val |-> m.val, data |-> m.data]

parse(struct, elements, d) == ParseOutcome(ParseRun(ParseCall(struct, elements, d)))

(***************************************************************************)
(* Frame assembler: parse_byte as a function of the fields of the Sml      *)
(* object and of the byte received.                                        *)
(***************************************************************************)
\* b'\x1b'
ESC == 27

\* b'\x1b\x1b\x1b\x1b\x01\x01\x01\x01'
StartMarker == <<27, 27, 27, 27, 1, 1, 1, 1>>

\* the last n items of a sequence (all of it when it is shorter)
LastN(d, n) == SubSeq(d, Max(Len(d) - n, 0) + 1, Len(d))

\* a start that removes nothing: not the code's, C8 tells the two apart
TrimToStartKeepsAll(d) == d

\* a start that leaves one byte in front of START: not the code's, C17
\* tells the two apart
TrimToStartKeepsNine(d) == LastN(d, 9)

\* del self.data[:-8]: everything in front of START is removed
TrimToStart(d) == LastN(d, 8)

\* the two CRC bytes read with the first as the high byte: not the code's,
\* C7 tells the two apart
CrcMsgFirstByteHigh(esc) == esc[3] * 256 + esc[4]

\* crc_msg = int(esc[:-3:-1].hex(), 16): the reversed slice is esc[3], esc[2]
\* (0-based), so the last byte of the escape code is the high byte
CrcMsg(esc) == esc[4] * 256 + esc[3]

\* the bytes the CRC is computed over: self.data[:-2]
CrcInput(d) == SubSeq(d, 1, Len(d) - SliceCut(Len(d), 2))

\* del self.data[:8]; del self.data[-(8 + padding_bytes):]
StripFrame(d, padding_bytes) ==
    LET body == SubSeq(d, SliceCut(Len(d), 8) + 1, Len(d))
    IN SubSeq(body, 1, Max(Len(body) - (8 + padding_bytes), 0))

\* the observation left by a call that completed no escape code
NoEvent == [kind |-> "byte", trimmed |-> 0, crc_over |-> <<>>, crc_calc |-> -1,
            crc_msg |-> -1, parse_in |-> <<>>, parsed |-> FALSE]

\* "if crc == crc_msg": the frame is stripped and decoded, res is the
\* outcome of parse; only SmlException is caught
EndAccepted(obj, obs, input, res) ==
    [obj |-> [obj EXCEPT !.data = res.data, !.message_started = FALSE,
                         !.sml_file = IF res.exc = "" THEN res.val ELSE @],
     ret |-> IF res.exc \in {"", "SmlException"} THEN "True" ELSE res.exc,
     ev  |-> [obs EXCEPT !.kind = "end_ok", !.parse_in = input, !.parsed = TRUE]]

\* "else": self.data = bytearray(); WARN: bad CRC
EndRejected(obj, obs) ==
    [obj |-> [obj EXCEPT !.data = <<>>, !.message_started = FALSE],
     ret |-> "False",
     ev  |-> [obs EXCEPT !.kind = "end_bad"]]

\* the comparison of the CRC computed with the CRC of the end marker
EndCompare(obj, d, obs, input) ==
    IF obs.crc_calc = obs.crc_msg
    THEN EndAccepted(obj, obs, input, parse("smlFile", -1, input))
    ELSE EndRejected(obj, obs)

\* the branch "End of message" taken with the message started
EndStarted(obj, d, esc) ==
    EndCompare(obj, d,
               [NoEvent EXCEPT !.kind = "end", !.crc_over = CrcInput(d),
                               !.crc_calc = crc(CrcInput(d)), !.crc_msg = CrcMsg(esc)],
               StripFrame(d, esc[2]))

\* an end of message that checks the CRC whether or not a message was
\* started: not the code's, C4 tells the two apart
EndOfMessageIgnoresStarted(obj, d, esc) == EndStarted(obj, d, esc)

\* the branch "End of message": message_started is cleared, and the CRC is
\* looked at only when a message was started
EndOfMessage(obj, d, esc) ==
    IF obj.message_started
    THEN EndStarted(obj, d, esc)
    ELSE [obj |-> [obj EXCEPT !.data = d, !.message_started = FALSE],
          ret |-> "False",
          ev  |-> [NoEvent EXCEPT !.kind = "end_idle"]]

\* a dispatch that takes every escape code for a start of message: not the
\* code's, C18 tells the two apart
EscapeCodeAlwaysStarts(obj, d, esc) ==
    [obj |-> [obj EXCEPT !.data = TrimToStart(d), !.message_started = TRUE],
     ret |-> "False",
     ev |-> [NoEvent EXCEPT !.kind = "start", !.trimmed = Len(d) - Len(TrimToStart(d))]]

\* the dispatch on the escape code esc = self.data[-4:], with the buffer d
\* that holds the byte just received
EscapeCode(obj, d, esc) ==
    IF esc = <<27, 27, 27, 27>>
    THEN [obj |-> [obj EXCEPT !.data = d], ret |-> "False",
          ev |-> [NoEvent EXCEPT !.kind = "escaped"]]
    ELSE IF esc = <<1, 1, 1, 1>>
    THEN [obj |-> [obj EXCEPT !.data = TrimToStart(d), !.message_started = TRUE],
          ret |-> "False",
          ev |-> [NoEvent EXCEPT !.kind = IF obj.message_started THEN "nested_start" ELSE "start",
                                 !.trimmed = Len(d) - Len(TrimToStart(d))]]
    ELSE IF esc[1] = 2
    THEN [obj |-> [obj EXCEPT !.data = d], ret |-> "False",
          ev |-> [NoEvent EXCEPT !.kind = "block_transfer"]]
    ELSE IF esc[1] = 3
    THEN [obj |-> [obj EXCEPT !.data = d], ret |-> "False",
          ev |-> [NoEvent EXCEPT !.kind = "timeout"]]
    ELSE IF esc[1] = 4
    THEN [obj |-> [obj EXCEPT !.data = d], ret |-> "False",
          ev |-> [NoEvent EXCEPT !.kind = "block_size"]]
    ELSE IF esc[1] = 26
    THEN EndOfMessage(obj, d, esc)
    ELSE [obj |-> [obj EXCEPT !.data = d], ret |-> "False",
          ev |-> [NoEvent EXCEPT !.kind = "unlisted"]]

\* a parse_byte that takes the third 1b in a row for the last of the escape
\* sequence: not the code's, C21 tells the two apart
parse_byte_escapes_after_three(obj, byte) ==
    IF ~obj.esc_sequence
    THEN IF byte = ESC
         THEN [obj |-> [obj EXCEPT !.data = Append(obj.data, byte), !.esc_count = @ + 1,
                                   !.esc_sequence = (obj.esc_count + 1 = 3)],
               ret |-> "False", ev |-> NoEvent]
         ELSE [obj |-> [obj EXCEPT !.data = Append(obj.data, byte), !.esc_count = 0],
               ret |-> "False", ev |-> NoEvent]
    ELSE IF obj.esc_count - 1 # 0
         THEN [obj |-> [obj EXCEPT !.data = Append(obj.data, byte), !.esc_count = @ - 1],
               ret |-> "False", ev |-> NoEvent]
         ELSE EscapeCode([obj EXCEPT !.esc_count = 0, !.esc_sequence = FALSE],
                         Append(obj.data, byte), LastN(Append(obj.data, byte), 4))

\* parse_byte(byte) on the object obj = [data, esc_sequence, esc_count,
\* message_started, sml_file]: the object after the call, what the call
\* returned ("True", "False", or the class of the exception that left it)
\* and the branch it took
parse_byte(obj, byte) ==
    LET d == Append(obj.data, byte) IN
    IF ~obj.esc_sequence
    THEN IF byte = ESC
         THEN [obj |-> [obj EXCEPT !.data = d, !.esc_count = @ + 1,
                                   !.esc_sequence = (obj.esc_count + 1 = 4)],
               ret |-> "False", ev |-> NoEvent]
         ELSE [obj |-> [obj EXCEPT !.data = d, !.esc_count = 0],
               ret |-> "False", ev |-> NoEvent]
    ELSE IF obj.esc_count - 1 # 0
         THEN [obj |-> [obj EXCEPT !.data = d, !.esc_count = @ - 1],
               ret |-> "False", ev |-> NoEvent]
         ELSE EscapeCode([obj EXCEPT !.esc_count = 0, !.esc_sequence = FALSE], d, LastN(d, 4))

\* Sml.__init__
NewSml == [data |-> <<>>, esc_sequence |-> FALSE, esc_count |-> 0,
           message_started |-> FALSE, sml_file |-> ListVal(<<>>)]

(***************************************************************************)
(* State.                                                                  *)
(***************************************************************************)
(* The consumer of smartmeter-mqtt.py: pow10 and the body of the loop of   *)
(* SmartMeterThread.run after parse_byte has returned True.  A number is   *)
(* a record: an int n is [k |-> "int", num |-> n, den |-> 1], a float is   *)
(* the fraction num / den in lowest terms.                                 *)
(***************************************************************************)
RECURSIVE Gcd(_, _)
Gcd(a, b) == IF b = 0 THEN a ELSE Gcd(b, a % b)

Abs(a) == IF a < 0 THEN -a ELSE a

RECURSIVE TenTo(_)
TenTo(n) == IF n = 0 THEN 1 ELSE 10 * TenTo(n - 1)

IntNum(n) == [k |-> "int", num |-> n, den |-> 1]

\* the float num / den (den > 0)
FloatNum(num, den) ==
    [k |-> "float", num |-> num \div Gcd(Abs(num), den), den |-> den \div Gcd(Abs(num), den)]

\* a pow10 that multiplies whatever the sign of e: not the code's, C14
\* tells the two apart
pow10_always_multiplies(a, e) == IntNum(a * TenTo(Abs(e)))

\* pow10(a, e) for integers a and e.  "a /= 10" makes a float; one division
\* of an int by 10 is correctly rounded, so for e = -1 the float is the one
\* nearest to a / 10, which the fraction stands for; e < -1 repeats the
\* division on the float
pow10(a, e) ==
    IF e < 0 THEN FloatNum(a, TenTo(-e)) ELSE IntNum(a * TenTo(e))

\* the readings of a new SmartMeterThread: 0.0, 0.0 and 0
NewReadings ==
    [energy_consumption_Wh |-> FloatNum(0, 1), energy_supply_Wh |-> FloatNum(0, 1),
     power_W |-> IntNum(0), exc |-> ""]

ObisImport == <<1, 0, 1, 8, 0, 255>>
ObisExport == <<1, 0, 2, 8, 0, 255>>
ObisPower  == <<1, 0, 16, 7, 0, 255>>

\* x is a dict with key n
HasKey(x, n) == x.k = "dict" /\ n \in DOMAIN x.v

\* the readings after "for val in ...valList" has come to val: an entry that
\* is no dict, has no objName, or names one of the three readings without
\* an integer value and scaler raises
ReadVal(r, val) ==
    IF r.exc # "" THEN r
    ELSE IF val.k # "dict" THEN [r EXCEPT !.exc = "TypeError"]
    ELSE IF "objName" \notin DOMAIN val.v THEN [r EXCEPT !.exc = "KeyError"]
    ELSE IF val.v["objName"] \notin {BytesVal(ObisImport), BytesVal(ObisExport), BytesVal(ObisPower)}
    THEN r
    ELSE IF ~(HasKey(val, "value") /\ HasKey(val, "scaler")) THEN [r EXCEPT !.exc = "KeyError"]
    ELSE IF val.v["value"].k # "int" \/ val.v["scaler"].k # "int"
    THEN [r EXCEPT !.exc = "TypeError"]
    ELSE IF val.v["objName"].v = ObisImport
    THEN [r EXCEPT !.energy_consumption_Wh = pow10(val.v["value"].v, val.v["scaler"].v)]
    ELSE IF val.v["objName"].v = ObisExport
    THEN [r EXCEPT !.energy_supply_Wh = pow10(val.v["value"].v, val.v["scaler"].v)]
    ELSE [r EXCEPT !.power_W = pow10(val.v["value"].v, val.v["scaler"].v)]

\* "for val in msg['messageBody']['GetListResponse']['valList']" over the
\* items vl of a list
RECURSIVE ReadVals(_, _)
ReadVals(r, vl) ==
    IF vl = <<>> THEN r ELSE ReadVals(ReadVal(r, Head(vl)), Tail(vl))

\* 'GetListResponse' in x['messageBody']: "yes", "no", or the exception
InBody(x) ==
    IF x.k # "dict" THEN "TypeError"
    ELSE IF "messageBody" \notin DOMAIN x.v THEN "KeyError"
    ELSE IF x.v["messageBody"].k = "dict"
    THEN (IF "GetListResponse" \in DOMAIN x.v["messageBody"].v THEN "yes" ELSE "no")
    ELSE IF x.v["messageBody"].k = "list" THEN "no"
    ELSE "TypeError"

\* the readings after the loop body has come to message msg of messages
ReadMsg(r, msg) ==
    IF r.exc # "" THEN r
    ELSE IF ~HasKey(msg.v["messageBody"].v["GetListResponse"], "valList")
    THEN [r EXCEPT !.exc = IF msg.v["messageBody"].v["GetListResponse"].k = "dict"
                           THEN "KeyError" ELSE "TypeError"]
    ELSE IF msg.v["messageBody"].v["GetListResponse"].v["valList"].k # "list"
    THEN [r EXCEPT !.exc = "TypeError"]
    ELSE ReadVals(r, msg.v["messageBody"].v["GetListResponse"].v["valList"].v)

\* the list comprehension "messages" and the loop over it, file being the
\* items of sml_file; the comprehension is complete before the loop starts
RECURSIVE SelectExc(_)
SelectExc(file) ==
    IF file = <<>> THEN ""
    ELSE IF InBody(Head(file)) \notin {"yes", "no"} THEN InBody(Head(file))
    ELSE SelectExc(Tail(file))

RECURSIVE ReadMsgs(_, _)
ReadMsgs(r, file) ==
    IF file = <<>> THEN r
    ELSE IF InBody(Head(file)) = "yes" THEN ReadMsgs(ReadMsg(r, Head(file)), Tail(file))
    ELSE ReadMsgs(r, Tail(file))

\* lines 79-95 for the sml_file of a frame, r being the readings before
Consume(r, file) ==
    IF file.k # "list" THEN [r EXCEPT !.exc = "TypeError"]
    ELSE IF SelectExc(file.v) # "" THEN [r EXCEPT !.exc = SelectExc(file.v)]
    ELSE ReadMsgs(r, file.v)

(***************************************************************************)
VARIABLES
    \* the fields of the Sml object
    data, esc_sequence, esc_count, message_started, sml_file,
    \* the outcome of the last parse_byte call: what it returned or raised,
    \* the branch it took, and sml_file and message_started as they were
    \* before the call
    ret, ev, sml_before, started_before,
    \* the byte the last parse_byte call was made with
    last_byte,
    \* the byte source: the bytes of the current chunk still to send, the
    \* bytes sent since it began a start marker, how far it is in a frame
    \* of the well-formed shape, whether all it ever sent is one such frame,
    \* whether this frame directly follows one with flipped CRC bits, and
    \* the number of stray items it has sent since it began a start marker
    tx, sent, wf, fresh, after_flip, junk,
    \* the bytes received since the last start marker was recognised
    rx,
    \* crc and crc_slow side by side: the input and the two checksums
    crc_data, crc_fast, crc_ref,
    \* one call of parse in steps: the machine, the arguments and the buffer
    \* of the call, and what the last step was
    p_m, p_in, p_obs,
    \* the readings of the SmartMeterThread object
    energy_consumption_Wh, energy_supply_Wh, power_W

vars == <<data, esc_sequence, esc_count, message_started, sml_file, ret, ev,
          sml_before, started_before, last_byte, tx, sent, wf, fresh, after_flip, junk, rx,
          crc_data, crc_fast, crc_ref,
          p_m, p_in, p_obs,
          energy_consumption_Wh, energy_supply_Wh, power_W>>

smlVars  == <<data, esc_sequence, esc_count, message_started, sml_file, ret, ev,
              sml_before, started_before, last_byte, tx, sent, wf, fresh, after_flip, junk, rx>>
crcVars  == <<crc_data, crc_fast, crc_ref>>
stepVars == <<p_m, p_in, p_obs>>
meterVars == <<energy_consumption_Wh, energy_supply_Wh, power_W>>

\* the Sml object as one record
Obj == [data |-> data, esc_sequence |-> esc_sequence, esc_count |-> esc_count,
        message_started |-> message_started, sml_file |-> sml_file]

(***************************************************************************)
(* Bounds and the inputs of the byte source.                               *)
(***************************************************************************)
\* the longest buffer a chunk other than a start marker may be added to
MaxData == 28
\* the largest number of padding bytes of a frame
MaxPad == 1
\* the number of stray items the source may send between two start markers
MaxJunk == 1

\* payloads: [None]; [5]; a list header at the end of the data; a list where
\* a primitive field belongs; a type-length field cut short; a timeId with
\* no table entry followed by a list (node 'time' is not in the schema)
Payloads ==
    { <<1>>, <<98, 5>>, <<118>>, <<118, 113, 0>>, <<129>>,
      <<115, 114, 99, 1, 1, 114, 114, 98, 9, 113, 1>> }

\* stray items: single bytes, and escape sequences with a code other than
\* start and end of message
Strays ==
    { <<27>>, <<0>>,
      <<27, 27, 27, 27, 27, 27, 27, 27>>, <<27, 27, 27, 27, 2, 0, 0, 0>>,
      <<27, 27, 27, 27, 3, 0, 0, 0>>, <<27, 27, 27, 27, 4, 0, 0, 0>>,
      <<27, 27, 27, 27, 5, 0, 0, 0>> }

\* how the source fills the two CRC bytes of an end marker: low byte first,
\* high byte first, or low byte first with one bit of c1 or of c2 flipped
CrcKinds == {"good", "swapped", "flip_c1", "flip_c2"}

RECURSIVE Zeros(_)
Zeros(n) == IF n = 0 THEN <<>> ELSE <<0>> \o Zeros(n - 1)

\* padding, 1b 1b 1b 1b 1a and the padding count
EndHead(pp) == Zeros(pp) \o <<27, 27, 27, 27, 26, pp>>

\* the two CRC bytes the source sends for checksum c
CrcBytes(c, kind) ==
    CASE kind = "good"    -> <<c % 256, c \div 256>>
      [] kind = "swapped" -> <<c \div 256, c % 256>>
      [] kind = "flip_c1" -> <<BitXor(c % 256, 1), c \div 256>>
      [] kind = "flip_c2" -> <<c % 256, BitXor(c \div 256, 128)>>

\* the name of the frame shape that ends with CRC bytes of this kind
EndName(kind) ==
    CASE kind = "good"    -> "end_good"
      [] kind = "swapped" -> "end_swapped"
      [] kind = "flip_c1" -> "end_flip_c1"
      [] kind = "flip_c2" -> "end_flip_c2"

EndNames == {"end_good", "end_swapped", "end_flip_c1", "end_flip_c2", "end_other"}

\* the object is between escape sequences
InSync == esc_count = 0 /\ ~esc_sequence

(***************************************************************************)
(* Actions: every step is one parse_byte call.                             *)
(***************************************************************************)
\* the fields of the object, and the record of the call, after a call with
\* outcome r
Returned(r, byte) ==
    /\ data' = r.obj.data
    /\ esc_sequence' = r.obj.esc_sequence
    /\ esc_count' = r.obj.esc_count
    /\ message_started' = r.obj.message_started
    /\ sml_file' = r.obj.sml_file
    /\ ret' = r.ret
    /\ ev' = r.ev
    /\ sml_before' = sml_file
    /\ started_before' = message_started
    /\ last_byte' = byte
    /\ rx' = IF r.ev.kind \in {"start", "nested_start"} THEN StartMarker
             ELSE IF message_started THEN Append(rx, byte)
             ELSE <<>>
    /\ UNCHANGED <<crcVars, stepVars>>

\* the caller's "sml.parse_byte(byte)" with the next byte of the source
Call(byte) == Returned(parse_byte(Obj, byte), byte) /\ UNCHANGED meterVars

\* the source starts chunk c: its first byte is received
Begin(c) ==
    /\ tx = <<>>
    /\ tx' = Tail(c)
    /\ Call(Head(c))

SendStart ==
    /\ Begin(StartMarker)
    /\ sent' = <<Head(StartMarker)>>
    /\ wf' = IF InSync THEN "start" ELSE "none"
    /\ fresh' = (ret = "none")
    /\ after_flip' = (wf \in {"end_flip_c1", "end_flip_c2"})
    /\ junk' = 0

\* the payload of a frame, directly after its start marker
SendPayload(p) ==
    /\ wf = "start"
    /\ Len(data) + Len(p) <= MaxData
    /\ Begin(p)
    /\ sent' = Append(sent, Head(p))
    /\ wf' = "payload"
    /\ UNCHANGED <<fresh, after_flip, junk>>

\* padding and end marker, c being the checksum of all the source has sent
\* since it began the start marker
SendEndFor(c, pp, kind) ==
    /\ kind = "swapped" => c % 256 # c \div 256
    /\ Begin(EndHead(pp) \o CrcBytes(c, kind))
    /\ sent' = IF sent = <<>> THEN <<>> ELSE Append(sent, Head(EndHead(pp)))
    /\ wf' = IF wf = "payload" THEN EndName(kind) ELSE "end_other"
    /\ fresh' = (fresh /\ wf = "payload" /\ kind = "good")
    /\ after_flip' = (after_flip /\ wf = "payload")
    /\ UNCHANGED junk

\* the end of a frame; one that does not end a payload sent directly after
\* a start marker has its CRC bytes low byte first
SendEnd(pp, kind) ==
    /\ tx = <<>>
    /\ Len(data) + pp + 8 <= MaxData
    /\ wf # "payload" => kind = "good"
    /\ SendEndFor(crc(sent \o EndHead(pp)), pp, kind)

\* a stray item, outside a frame or directly after a start marker
SendStray(c) ==
    /\ junk < MaxJunk
    /\ wf # "payload"
    /\ Len(data) + Len(c) <= MaxData
    /\ Begin(c)
    /\ sent' = IF sent = <<>> THEN <<>> ELSE Append(sent, Head(c))
    /\ wf' = "none"
    /\ fresh' = FALSE
    /\ after_flip' = FALSE
    /\ junk' = junk + 1

\* the next byte of the chunk under way
Continue ==
    /\ tx # <<>>
    /\ tx' = Tail(tx)
    /\ Call(Head(tx))
    /\ sent' = IF sent = <<>> \/ (Len(tx) = 1 /\ wf \in EndNames)
               THEN <<>> ELSE Append(sent, Head(tx))
    /\ UNCHANGED <<wf, fresh, after_flip, junk>>

\* no call of parse under way
ParseIdle == [ParseCall("", 0, <<>>) EXCEPT !.stack = <<>>, !.status = "idle"]

\* the record of a step: its kind ("call", "iteration" or "exit"); the
\* length of the buffer, the budget of the call on top and the number of
\* calls under way before it; the buffer, and struct and sml_dict of the
\* call on top, before it; and the locals elem, tl_typ, tl_len and tl_bytes
\* as an iteration has set them (-1 where it has not)
NoStep ==
    [kind |-> "none", before |-> 0, budget |-> 0, depth |-> 0, buf |-> <<>>,
     struct |-> "", dict |-> EmptyDict, elem |-> "", tl_typ |-> -1,
     tl_len |-> -1, tl_bytes |-> -1]

\* the record of a step of kind k of call f, the buffer and the stack being
\* those of m
StepOf(m, f, k) ==
    [NoStep EXCEPT !.kind = k, !.before = Len(m.data), !.budget = f.elements,
                   !.depth = Len(m.stack), !.buf = m.data, !.struct = f.struct,
                   !.dict = f.sml_dict, !.elem = f.elem]

\* the record of an iteration that has read the type-length field t
StepWithTL(rec, elem, t) ==
    [rec EXCEPT !.elem = elem, !.tl_typ = t.tl_typ, !.tl_len = t.tl_len,
                !.tl_bytes = t.tl_bytes]

\* the record of an iteration, r being etyp and elem as the head of the
\* loop body resolves them
StepOfIteration(m, f, r) ==
    IF r.exc # "" THEN StepOf(m, f, "iteration")
    ELSE StepWithTL(StepOf(m, f, "iteration"), r.elem, ReadTL(m.data))

\* the record of the next step of call f
StepOfTop(m, f) ==
    IF Len(m.data) # 0 /\ f.elements # 0
    THEN StepOfIteration(m, f, Resolve(f.struct, f.elements, f.sml_dict))
    ELSE StepOf(m, f, "exit")

\* a new Sml object, nothing received
InitSml ==
    /\ data = NewSml.data
    /\ esc_sequence = NewSml.esc_sequence
    /\ esc_count = NewSml.esc_count
    /\ message_started = NewSml.message_started
    /\ sml_file = NewSml.sml_file
    /\ ret = "none"
    /\ ev = NoEvent
    /\ sml_before = NewSml.sml_file
    /\ started_before = NewSml.message_started
    /\ last_byte = 0
    /\ tx = <<>>
    /\ sent = <<>>
    /\ wf = "none"
    /\ fresh = TRUE
    /\ after_flip = FALSE
    /\ junk = 0
    /\ rx = <<>>

\* the two checksums of the empty input
InitCrc ==
    /\ crc_data = <<>>
    /\ crc_fast = crc(<<>>)
    /\ crc_ref = crc_slow(<<>>)

\* no call of parse under way
InitStep ==
    /\ p_m = ParseIdle
    /\ p_in = [struct |-> "", elements |-> 0, data |-> <<>>]
    /\ p_obs = NoStep

\* SmartMeterThread.__init__
InitMeter ==
    /\ energy_consumption_Wh = NewReadings.energy_consumption_Wh
    /\ energy_supply_Wh = NewReadings.energy_supply_Wh
    /\ power_W = NewReadings.power_W

Init == InitSml /\ InitCrc /\ InitStep /\ InitMeter

Next ==
    \/ SendStart
    \/ \E p \in Payloads : SendPayload(p)
    \/ \E pp \in 0..MaxPad, kind \in CrcKinds : SendEnd(pp, kind)
    \/ \E c \in Strays : SendStray(c)
    \/ Continue

Spec == Init /\ [][Next]_vars

(***************************************************************************)
(* crc and crc_slow side by side.                                          *)
(***************************************************************************)
\* the longest input
MaxCrcLen == 4
\* the bytes an input goes on with after its first byte
CrcTail == {0, 27, 128, 255}

\* both checksums of the input extended by byte b
CrcAppend(b) ==
    /\ Len(crc_data) < MaxCrcLen
    /\ crc_data # <<>> => b \in CrcTail
    /\ crc_data' = Append(crc_data, b)
    /\ crc_fast' = crc(Append(crc_data, b))
    /\ crc_ref' = crc_slow(Append(crc_data, b))
    /\ UNCHANGED <<smlVars, stepVars, meterVars>>

NextCrc == \E b \in 0..255 : CrcAppend(b)

SpecCrc == Init /\ [][NextCrc]_vars

(***************************************************************************)
(* One call of parse, step by step.                                        *)
(***************************************************************************)
\* the longest buffer
MaxParseLen == 2
\* the bytes of a buffer: type-length fields of an absent octet string, a
\* 1-byte unsigned, a list of 0, 1 and 6 elements, and one that announces
\* another type-length byte
ParseBytes == {1, 98, 112, 113, 118, 129}
\* the nodes parse is started at, and the budgets
ParseNodes == {"smlFile", "smlMessage", "message"}
ParseBudgets == {-1, 0, 2}

ParseBuffers == UNION { [1..n -> ParseBytes] : n \in 0..MaxParseLen }

\* "while len(self.data) and elements != 0" of the call on top
ParseLoops(m) == Len(m.data) # 0 /\ m.stack[Len(m.stack)].elements # 0

\* parse(struct, elements) has been called with buffer d
ParseBegin(struct, elements, d) ==
    /\ p_m = ParseCall(struct, elements, d)
    /\ p_in = [struct |-> struct, elements |-> elements, data |-> d]
    /\ p_obs = [NoStep EXCEPT !.kind = "call", !.before = Len(d), !.budget = elements,
                              !.buf = d, !.struct = struct]

InitParse ==
    /\ InitSml
    /\ InitCrc
    /\ InitMeter
    /\ \E struct \in ParseNodes, elements \in ParseBudgets, d \in ParseBuffers :
          ParseBegin(struct, elements, d)

\* the call on top of the stack runs one iteration of its loop, or ends
ParseNext ==
    /\ p_m.status = "run"
    /\ p_m' = ParseStep(p_m)
    /\ p_obs' = StepOfTop(p_m, p_m.stack[Len(p_m.stack)])
    /\ UNCHANGED <<p_in, smlVars, crcVars, meterVars>>

NextParse == ParseNext

SpecParse == InitParse /\ [][NextParse]_vars

\* the steps of a call are taken as long as it has not ended
SpecParseFair == SpecParse /\ WF_vars(ParseNext)

(***************************************************************************)
(* parse on buffers made of whole elements, step by step.                  *)
(***************************************************************************)
\* the most elements of a buffer
MaxItems == 2
\* the most list headers 71 after the header 73 of a buffer of nested lists
MaxNest == 18

\* n bytes b
RECURSIVE Fill(_, _)
Fill(n, b) == IF n = 0 THEN <<>> ELSE <<b>> \o Fill(n - 1, b)

\* the elements of a buffer.  Octet strings: absent (01), the end-of-message
\* byte (00), of 2 bytes, and absent behind the two-byte type-length field
\* 80 02; a boolean; the unsigned 1, 2, 3, 9 of one byte and 257, 513, 1793
\* of two; the signed -1; list headers of 1, 2, 3, 6 and (F1 01) 17
\* elements; an element of the reserved type 0x10 with one payload byte; the
\* field 81 15, whose second byte has type bits
DecodeItems ==
    { <<1>>, <<0>>, <<3, 170, 187>>, <<128, 2>>,
      <<66, 1>>,
      <<98, 1>>, <<98, 2>>, <<98, 3>>, <<98, 9>>,
      <<99, 1, 1>>, <<99, 2, 1>>, <<99, 7, 1>>,
      <<82, 255>>,
      <<113>>, <<114>>, <<115>>, <<118>>, <<241, 1>>,
      <<18, 170>>,
      <<129, 21>> }

\* an octet string of 19 bytes behind the two-byte type-length field 81 05
LongItem == <<129, 5>> \o Fill(19, 170)

\* a boolean, a signed and an unsigned with length nibble 0, and what
\* follows one in a buffer
ZeroLengthItems == { <<64>>, <<80>>, <<96>> }
Followers == { <<>>, <<1>>, <<98, 5>>, <<98, 5, 1>>, <<98, 5, 98, 7>> }

\* the bytes of a sequence of elements
RECURSIVE Flatten(_)
Flatten(q) == IF q = <<>> THEN <<>> ELSE Head(q) \o Flatten(Tail(q))

\* the sequences of at most n elements
ItemSeqs(n) == { Flatten(q) : q \in UNION { [1..k -> DecodeItems] : k \in 0..n } }

\* the buffers: at most MaxItems elements, the first of which may be the
\* long octet string, or an element with length nibble 0 and its followers
DecodeBuffers ==
    ItemSeqs(MaxItems)
        \cup { LongItem \o d : d \in ItemSeqs(MaxItems - 1) }
        \cup { z \o f : z \in ZeroLengthItems, f \in Followers }

\* the header of a list of 3 elements followed by n headers of lists of 1
NestChain(n) == <<115>> \o Fill(n, 113)

\* the node and the budget of a call: the call parse_byte makes, and calls
\* as a list header of 1, 2, 3, 6 or 7 elements makes them
DecodeStarts ==
    { <<"smlFile", -1>>, <<"smlMessage", 6>>, <<"smlMessage", 3>>,
      <<"smlMessage", 7>>, <<"messageBody", 2>>, <<"refTime", 2>>,
      <<"valTime", 2>>, <<"localTimestamp", 3>>, <<"message", 1>>,
      <<"message", 2>> }

InitDecode ==
    /\ InitSml
    /\ InitCrc
    /\ InitMeter
    /\ \/ \E c \in DecodeStarts, d \in DecodeBuffers : ParseBegin(c[1], c[2], d)
       \/ \E n \in 0..MaxNest : ParseBegin("smlFile", -1, NestChain(n))

NextDecode == ParseNext

SpecDecode == InitDecode /\ [][NextDecode]_vars

(***************************************************************************)
(* The loop of SmartMeterThread.run on frames of a meter: every step is    *)
(* one iteration, parse_byte and, when it returns True, the readings.      *)
(***************************************************************************)
\* the largest number of padding bytes of a frame of the meter
MaxMeterPad == 1

\* what the meter reports: the object, the value and the scaler
MeterObis == {ObisPower, ObisExport}
MeterValues == {1234}
MeterScalers == {-1, 0, 1}

\* a val entry of 7 fields: objName, status, valTime and unit absent, the
\* scaler as a signed of 1 byte, the value as a signed of 2 bytes,
\* valueSignature absent
ValEntry(o, v, sc) ==
    <<119, 7>> \o o \o <<1, 1, 1, 82, sc % 256, 83, v \div 256, v % 256, 1>>

\* one smlMessage of 6 fields: transactionId, groupNo and abortOnError absent,
\* messageBody with messageId 0x0701 and a GetListResponse of 7 fields whose
\* valList has one entry, crc16 absent, endOfSmlMsg 00
MeterPayload(o, v, sc) ==
    <<118, 1, 1, 1, 114, 99, 7, 1, 119, 1, 1, 1, 1, 113>>
        \o ValEntry(o, v, sc) \o <<1, 1, 1, 0>>

\* the bytes b followed by their CRC, low byte first
WithCrc(b) == b \o CrcBytes(crc(b), "good")

MeterFrame(o, v, sc, pp) == WithCrc(StartMarker \o MeterPayload(o, v, sc) \o EndHead(pp))

MeterFrames ==
    { MeterFrame(o, v, sc, pp) :
        o \in MeterObis, v \in MeterValues, sc \in MeterScalers, pp \in 0..MaxMeterPad }

\* the readings as one record
Readings ==
    [energy_consumption_Wh |-> energy_consumption_Wh,
     energy_supply_Wh |-> energy_supply_Wh, power_W |-> power_W, exc |-> ""]

\* the state after an iteration whose parse_byte call had outcome r, c being
\* the readings after it; an exception of the loop body leaves run(), and
\* the main loop makes a new SmartMeterThread, whose run() makes a new Sml
MeterAfter(r, byte, c) ==
    IF c.exc = ""
    THEN /\ Returned(r, byte)
         /\ energy_consumption_Wh' = c.energy_consumption_Wh
         /\ energy_supply_Wh' = c.energy_supply_Wh
         /\ power_W' = c.power_W
    ELSE /\ Returned([r EXCEPT !.obj = NewSml, !.ret = c.exc], byte)
         /\ energy_consumption_Wh' = NewReadings.energy_consumption_Wh
         /\ energy_supply_Wh' = NewReadings.energy_supply_Wh
         /\ power_W' = NewReadings.power_W

\* "if sml.parse_byte(byte) == True:" and the body of the loop
MeterStep(r, byte) ==
    MeterAfter(r, byte,
               IF r.ret = "True" THEN Consume(Readings, r.obj.sml_file) ELSE Readings)

MeterCall(byte) == MeterStep(parse_byte(Obj, byte), byte)

\* the meter starts a frame
MeterBegin(frame) ==
    /\ tx = <<>>
    /\ tx' = Tail(frame)
    /\ sent' = <<Head(frame)>>
    /\ MeterCall(Head(frame))
    /\ UNCHANGED <<wf, fresh, after_flip, junk>>

\* the next byte of the frame under way
MeterContinue ==
    /\ tx # <<>>
    /\ tx' = Tail(tx)
    /\ sent' = Append(sent, Head(tx))
    /\ MeterCall(Head(tx))
    /\ UNCHANGED <<wf, fresh, after_flip, junk>>

NextMeter ==
    \/ \E frame \in MeterFrames : MeterBegin(frame)
    \/ MeterContinue

SpecMeter == Init /\ [][NextMeter]_vars

(***************************************************************************)
(* Properties of the frame assembler, checked under Spec.                  *)
(***************************************************************************)
\* the last call completed an end marker while a message was started
EndChecked == ev.kind \in {"end_ok", "end_bad"}

\* the last call delivered the final CRC byte of a frame of the well-formed
\* shape whose CRC bytes are of the given kind
FrameDone(name) == wf = name /\ tx = <<>>

\* the payload of the frame in rx: what is left without the start marker,
\* the padding and the end marker
PayloadOf(frame) == SubSeq(frame, 9, Len(frame) - 8 - frame[Len(frame) - 2])

\* C1: a well-formed frame with the correct CRC fed byte by byte to a fresh
\* instance makes parse_byte return False on every byte but the last and
\* True on the final CRC byte.
C1_OneTrueOnFinalByte ==
    (fresh /\ ret # "none" /\ wf \in {"start", "payload", "end_good"})
        => ret = (IF FrameDone("end_good") THEN "True" ELSE "False")

\* C2: the call that completes an end marker whose CRC bytes have a flipped
\* bit returns False, decodes nothing, leaves sml_file as it was and empties
\* the buffer; the well-formed frame that follows is accepted on its final
\* byte and decoded from its own payload.
C2_RejectThenResync ==
    /\ (FrameDone("end_flip_c1") \/ FrameDone("end_flip_c2"))
          => (ret = "False" /\ ~ev.parsed /\ sml_file = sml_before /\ data = <<>>)
    /\ (after_flip /\ FrameDone("end_good"))
          => (ret = "True" /\ ev.parse_in = PayloadOf(rx))

\* C4: sml_file changes, a decode is run and True is returned only by a call
\* that completes an end marker with message_started true before it and the
\* computed CRC equal to the claimed one; an end marker completed with
\* message_started false checks no CRC, decodes nothing, leaves sml_file as
\* it was and returns False.
C4_SmlFileOnlyFromValidatedFrame ==
    /\ (ret = "True" \/ sml_file # sml_before \/ ev.parsed)
          => (ev.kind = "end_ok" /\ started_before /\ ev.crc_calc = ev.crc_msg)
    /\ EndChecked => started_before
    /\ ev.kind = "end_idle"
          => (~started_before /\ ret = "False" /\ sml_file = sml_before
              /\ ~ev.parsed /\ ev.crc_calc = -1)

\* a frame has been accepted, and it changed sml_file
C4_Witness == ev.kind = "end_ok" /\ ret = "True" /\ sml_file # sml_before

\* C5: a call that completes an end marker with message_started true and a
\* matching CRC decodes the buffer without its first 8 and its last 8 + pp
\* bytes, returns True with sml_file the decode of this frame, and leaves
\* message_started false.
C5_AcceptedFrameIsDecoded ==
    ev.kind = "end_ok"
        => (/\ ev.parse_in = PayloadOf(rx)
            /\ ret = "True"
            /\ sml_file = parse("smlFile", -1, ev.parse_in).val
            /\ ~message_started)

\* C6: no exception of a failed schema lookup leaves parse_byte.
C6_LookupFailureConfined == ret # "KeyError"

C8_BufferIsFrameSoFar ==
    /\ message_started => (data = rx /\ SubSeq(data, 1, 8) = StartMarker)
    /\ EndChecked => ev.crc_over = SubSeq(rx, 1, Len(rx) - 2)

\* a start marker has been recognised with earlier bytes in the buffer
C8_Witness == message_started /\ ev.kind = "start" /\ ev.trimmed > 0

\* the escape code that the call of this step completes, the object being
\* at the last byte of an escape code before it
CodeCompleted == LastN(data, 3) \o <<last_byte'>>

\* C17: the call that completes the escape code 01 01 01 01 sets
\* message_started, leaves in the buffer its last 8 bytes only, the start
\* marker, whether or not a message was started before, and returns False.
C17_StartTrimsBuffer ==
    [][(esc_sequence /\ esc_count = 1 /\ CodeCompleted = <<1, 1, 1, 1>>)
          => (/\ message_started'
              /\ data' = LastN(Append(data, last_byte'), 8)
              /\ data' = <<27, 27, 27, 27, 1, 1, 1, 1>>
              /\ ret' = "False")]_vars

\* a start marker has been recognised while a message was started, and more
\* than the 8 bytes of the earlier start marker were dropped
C17_Witness ==
    /\ ev.kind = "nested_start"
    /\ ev.trimmed > 8
    /\ data = StartMarker
    /\ message_started

\* C18: the call that completes an escape code other than 01 01 01 01 and
\* 1A .. leaves message_started and sml_file as they were, keeps every byte
\* of the buffer, the 8 bytes of the escape sequence among them, and
\* returns False.
C18_OtherCodesKeepState ==
    [][(esc_sequence /\ esc_count = 1
            /\ CodeCompleted # <<1, 1, 1, 1>> /\ CodeCompleted[1] # 26)
          => (/\ message_started' = message_started
              /\ sml_file' = sml_file
              /\ data' = Append(data, last_byte')
              /\ SubSeq(data', Len(data') - 7, Len(data') - 4) = <<27, 27, 27, 27>>
              /\ ret' = "False")]_vars

\* a start of block transfer has been completed inside a started message
C18_Witness ==
    /\ ev.kind = "block_transfer"
    /\ message_started
    /\ Len(data) >= 16
    /\ data[Len(data) - 3] = 2

\* the ranges of esc_count in normal mode and inside an escape code
EscCountInRange ==
    /\ esc_count \in 0..4
    /\ ~esc_sequence => esc_count <= 3
    /\ esc_sequence => (1 <= esc_count /\ esc_count <= 4)

\* a call in normal mode counts a 1b and forgets the count on any other
\* byte; the fourth 1b in a row, and nothing else, begins an escape code
NormalModeStep ==
    ~esc_sequence
        => (/\ esc_count' = IF last_byte' = 27 THEN esc_count + 1 ELSE 0
            /\ esc_sequence' <=> (last_byte' = 27 /\ esc_count = 3))

\* a call inside an escape code takes the byte, a 1b too, as one of its 4
\* bytes; the fourth ends the escape code with esc_count 0
EscapeCodeStep ==
    esc_sequence
        => (/\ esc_count' = esc_count - 1
            /\ esc_sequence' <=> (esc_count > 1))

\* C21: esc_count is in 0..4, at most 3 in normal mode and at least 1 inside
\* an escape code; the 4 bytes after the fourth 1b in a row are the escape
\* code, none of them counts toward a new run of 1b, and after the fourth
\* of them the assembler is in normal mode with esc_count 0.
C21_EscapeCounter ==
    /\ []EscCountInRange
    /\ [][NormalModeStep /\ EscapeCodeStep]_vars

\* the second byte of an escape code was a 1b, and two bytes are to come
C21_Witness == esc_sequence /\ esc_count = 2 /\ last_byte = 27

(***************************************************************************)
(* Properties of the CRC16 engine, checked under SpecCrc.                  *)
(***************************************************************************)
\* C3: for every byte sequence the table-driven crc equals the bit-by-bit
\* reference crc_slow.
C3_TableCrcEqualsReference == crc_fast = crc_ref

\* both checksums of an input of several bytes whose first byte has its
\* high bit set
C3_Witness == Len(crc_data) >= 2 /\ crc_data[1] >= 128 /\ crc_fast = crc_ref

(***************************************************************************)
(* Properties of parse, checked under SpecParse and SpecParseFair.         *)
(***************************************************************************)
\* the call of parse has ended
ParseEnded == p_m.status \in {"returned", "raised"}

\* the steps left are bounded by the bytes left and the calls under way
ParseMeasure(m) == 2 * Len(m.data) + Len(m.stack)

C10_TruncationTolerated ==
    (ParseEnded /\ Len(p_m.data) = 0 /\ p_obs.budget # 0) => p_m.status = "returned"

(***************************************************************************)
(* Properties of the element decoder, checked under SpecDecode.            *)
(***************************************************************************)
\* the last step was an iteration at the second field of a struct node whose
\* fields are key and '[key]', key having decoded to an integer
AtPlaceholder(key) ==
    /\ p_obs.kind = "iteration"
    /\ p_obs.struct \in DOMAIN sml_struct
    /\ sml_struct[p_obs.struct].name = <<key, "[" \o key \o "]">>
    /\ p_obs.budget = 1
    /\ key \in DOMAIN p_obs.dict
    /\ p_obs.dict[key].k = "int"

\* the node a discriminant value selects, as the claim lists them
NodeOfTimeId(v) ==
    CASE v = 1 -> "secIndex" [] v = 2 -> "timestamp" [] v = 3 -> "localTimestamp"
      [] OTHER -> "time"
NodeOfMessageId(v) ==
    CASE v = 257 -> "OpenResponse" [] v = 513 -> "CloseResponse"
      [] v = 1793 -> "GetListResponse" [] OTHER -> "message"

\* the iteration decoded its element under the name n: a list header called
\* parse(n, ..), a value was stored under n
DecodedUnder(n) ==
    /\ p_obs.elem = n
    /\ Len(p_m.stack) = p_obs.depth + 1 => p_m.stack[Len(p_m.stack)].struct = n
    /\ (Len(p_m.stack) = p_obs.depth /\ p_obs.tl_typ \in {0, 64, 80, 96})
          => n \in DOMAIN p_m.stack[Len(p_m.stack)].sml_dict

\* C11: after timeId has decoded to 1, 2 or 3 the field '[timeId]' is
\* decoded under secIndex, timestamp or localTimestamp; after messageId has
\* decoded to 257, 513 or 1793 the field '[messageId]' is decoded under
\* OpenResponse, CloseResponse or GetListResponse; for a value with no table
\* entry the name is 'time' or 'message'.
C11_DiscriminantSelectsNode ==
    /\ AtPlaceholder("timeId") => DecodedUnder(NodeOfTimeId(p_obs.dict["timeId"].v))
    /\ AtPlaceholder("messageId")
          => DecodedUnder(NodeOfMessageId(p_obs.dict["messageId"].v))

\* timeId 2 was followed by a list header, which called parse('timestamp', ..)
C11_Witness ==
    /\ AtPlaceholder("timeId")
    /\ p_obs.dict["timeId"].v = 2
    /\ Len(p_m.stack) = p_obs.depth + 1
    /\ p_m.stack[Len(p_m.stack)].struct = "timestamp"

\* the last step was an iteration that came to read a type-length field
FieldRead == p_obs.kind = "iteration" /\ p_obs.tl_bytes >= 1

\* the bytes of the type-length field at the front of buffer b: up to the
\* first byte with bit 0x80 clear, all of b when it has none
FieldExtent(b) ==
    IF \E k \in 1..Len(b) : BitAnd(b[k], 128) = 0
    THEN CHOOSE k \in 1..Len(b) :
            /\ BitAnd(b[k], 128) = 0
            /\ \A i \in 1..(k - 1) : BitAnd(b[i], 128) # 0
    ELSE Len(b)

\* the sequence b begins with the sequence pre
HasPrefix(b, pre) == Len(b) >= Len(pre) /\ SubSeq(b, 1, Len(pre)) = pre

\* the length the bytes of a type-length field give when only the bytes after
\* the first whose type bits 0x70 are clear shift it and add their nibble
RECURSIVE LengthOfField(_)
LengthOfField(b) ==
    IF Len(b) = 1 THEN BitAnd(b[1], 15)
    ELSE IF BitAnd(b[Len(b)], 112) = 0
         THEN LengthOfField(SubSeq(b, 1, Len(b) - 1)) * 16 + BitAnd(b[Len(b)], 15)
         ELSE LengthOfField(SubSeq(b, 1, Len(b) - 1))

\* the length they give when every byte after the first shifts it and adds
\* its nibble
RECURSIVE LengthOfNibbles(_)
LengthOfNibbles(b) ==
    IF Len(b) = 1 THEN BitAnd(b[1], 15)
    ELSE LengthOfNibbles(SubSeq(b, 1, Len(b) - 1)) * 16 + BitAnd(b[Len(b)], 15)

\* the field is counted up to its first byte with bit 0x80 clear; 81 05 is
\* a field of 2 bytes and length 0x15; an octet string that the buffer holds
\* whole is removed with its field, tl_len bytes in all
FieldCountsItsBytes ==
    /\ p_obs.tl_bytes = FieldExtent(p_obs.buf)
    /\ HasPrefix(p_obs.buf, <<129, 5>>)
          => (p_obs.tl_len = 21 /\ p_obs.tl_bytes = 2)
    /\ (/\ p_obs.tl_typ = 0
        /\ p_obs.tl_len > p_obs.tl_bytes
        /\ BitAnd(p_obs.buf[p_obs.tl_bytes], 128) = 0
        /\ p_obs.buf[p_obs.tl_bytes] # 0
        /\ Len(p_obs.buf) >= p_obs.tl_len)
          => p_m.data = SubSeq(p_obs.buf, p_obs.tl_len + 1, Len(p_obs.buf))

\* C12: a type-length byte with bit 0x80 set is followed by further bytes
\* of the field, each counted in tl_bytes; each of them whose type bits are
\* clear shifts the length by 4 bits and adds its low nibble, one whose type
\* bits are set leaves the length as it is; 81 05 gives length 0x15; the
\* payload length is the length minus the number of bytes of the field.
C12_ContinuationExtendsLength ==
    FieldRead
        => (/\ p_obs.tl_len = LengthOfField(SubSeq(p_obs.buf, 1, p_obs.tl_bytes))
            /\ FieldCountsItsBytes)

\* the octet string behind 81 05 has been decoded: 21 bytes are gone, and
\* the element after it is left
C12_Witness ==
    /\ FieldRead
    /\ HasPrefix(p_obs.buf, <<129, 5>>)
    /\ Len(p_obs.buf) > 21
    /\ p_m.data = SubSeq(p_obs.buf, 22, Len(p_obs.buf))

\* C12 as stated: every byte after the first shifts the length and adds its
\* nibble
C12_EveryContinuationAddsNibble ==
    FieldRead
        => (/\ p_obs.tl_len = LengthOfNibbles(SubSeq(p_obs.buf, 1, p_obs.tl_bytes))
            /\ FieldCountsItsBytes)

\* the last step was an iteration that read a whole type-length field of
\* type typ and decoded the element without a nested call
Decoded(typ) ==
    /\ FieldRead
    /\ BitAnd(p_obs.buf[p_obs.tl_bytes], 128) = 0
    /\ p_obs.tl_typ = typ
    /\ p_m.status = "run"
    /\ Len(p_m.stack) = p_obs.depth

\* the value the call on top has stored last: the last item of sml_list, or
\* the item of sml_dict under elem
StoredLast(f) ==
    IF f.etyp = "list" THEN f.sml_list[Len(f.sml_list)] ELSE f.sml_dict[p_obs.elem]

\* the buffer before the iteration without its first n bytes
BufferFrom(n) == SubSeq(p_obs.buf, n + 1, Len(p_obs.buf))

\* C13: an octet string whose payload length is zero decodes to None, not
\* to a byte string, and only its type-length field leaves the buffer; the
\* type-length byte 00 decodes to the single byte 00.
C13_AbsentAndEndOfMessage ==
    Decoded(0)
        => (/\ p_obs.tl_len = p_obs.tl_bytes
                  => (/\ StoredLast(p_m.stack[Len(p_m.stack)]).k = "None"
                      /\ p_m.data = BufferFrom(p_obs.tl_bytes))
            /\ p_obs.buf[1] = 0
                  => (/\ StoredLast(p_m.stack[Len(p_m.stack)]) = [k |-> "bytes", v |-> <<0>>]
                      /\ p_m.data = BufferFrom(1)))

\* 01 has been decoded to None with an element behind it left in the buffer
C13_Witness ==
    /\ Decoded(0)
    /\ p_obs.buf[1] = 1
    /\ StoredLast(p_m.stack[Len(p_m.stack)]).k = "None"
    /\ Len(p_m.data) > 0

\* C15: an element of a type other than octet string, boolean, signed,
\* unsigned and list has its payload skipped, stores nothing, and takes one
\* from the budget of the call.
C15_UnknownTypeCounts ==
    (\E typ \in {16, 32, 48} : Decoded(typ))
        => (/\ (p_obs.tl_len >= p_obs.tl_bytes /\ Len(p_obs.buf) >= p_obs.tl_len)
                  => p_m.data = BufferFrom(p_obs.tl_len)
            /\ p_m.stack[Len(p_m.stack)].sml_dict = p_obs.dict
            /\ p_m.stack[Len(p_m.stack)].elements = p_obs.budget - 1)

\* the last step was an iteration of a struct node that read a type-length
\* field
StructFieldRead ==
    /\ FieldRead
    /\ p_obs.struct \in DOMAIN sml_struct
    /\ sml_struct[p_obs.struct].type = "struct"

\* the field name at position k of the node, when there is one and it is no
\* placeholder
PlainFieldAt(k) ==
    /\ k <= Len(sml_struct[p_obs.struct].name)
    /\ ~HasBracket(sml_struct[p_obs.struct].name[k])

\* C16: the k-th element a struct node decodes is decoded under the k-th
\* field name of the node, k - 1 being the number of fields it has stored.
C16_FieldsByPosition ==
    (StructFieldRead /\ PlainFieldAt(Cardinality(DOMAIN p_obs.dict) + 1))
        => p_obs.elem = sml_struct[p_obs.struct].name[Cardinality(DOMAIN p_obs.dict) + 1]

\* the number of nodes of the schema
SchemaNodes == Cardinality(DOMAIN sml_struct)

\* C19: the number of calls of parse under way never exceeds a number fixed
\* by the schema: one call for each of its nodes, and one more for a name
\* that is no node, which raises at once.
C19_DepthBoundedBySchema == Len(p_m.stack) <= SchemaNodes + 1

\* the bytes an element declares: those of its type-length field and its
\* payload, none when the length is below the size of the field
DeclaredBytes == Max(p_obs.tl_len, p_obs.tl_bytes)

\* C20: decoding an octet string, a boolean, a signed or an unsigned from a
\* buffer that holds its declared bytes removes these bytes from the front
\* of the buffer and leaves what follows as it was.
C20_PrimitiveRemovesOnlyItsBytes ==
    ((\E typ \in {0, 64, 80, 96} : Decoded(typ)) /\ Len(p_obs.buf) >= DeclaredBytes)
        => p_m.data = BufferFrom(DeclaredBytes)

(***************************************************************************)
(* Properties of the consumer, checked under SpecMeter.                    *)
(***************************************************************************)
\* the meter has sent the last byte of a frame that reports 1234 with
\* scaler -1 for object 01 00 10 07 00 FF
PowerFrameSent ==
    /\ tx = <<>>
    /\ \E pp \in 0..MaxMeterPad : sent = MeterFrame(<<1, 0, 16, 7, 0, 255>>, 1234, -1, pp)

\* the entries of valList of the first message of sml_file
ValListOf(file) == file.v[1].v["messageBody"].v["GetListResponse"].v["valList"].v

\* C14: on the last byte of a GetListResponse frame whose valList has the
\* entry 01 00 10 07 00 FF with value 1234 and scaler -1, parse_byte
\* returns True, sml_file holds that entry, and power_W is 1234 / 10.
C14_PowerReadingDecoded ==
    PowerFrameSent
        => (/\ ret = "True"
            /\ Len(ValListOf(sml_file)) = 1
            /\ ValListOf(sml_file)[1].v["objName"] = [k |-> "bytes", v |-> <<1, 0, 16, 7, 0, 255>>]
            /\ ValListOf(sml_file)[1].v["value"] = [k |-> "int", v |-> 1234]
            /\ ValListOf(sml_file)[1].v["scaler"] = [k |-> "int", v |-> -1]
            /\ power_W.k = "float"
            /\ power_W.num * 10 = 1234 * power_W.den)

\* such a frame has been read after one that reported 1234 with scaler 1 for
\* object 01 00 02 08 00 FF
C14_Witness ==
    /\ PowerFrameSent
    /\ ret = "True"
    /\ power_W.num = 617 /\ power_W.den = 5
    /\ energy_supply_Wh.num = 12340

=============================================================================
